---- MODULE Spec2Model ----
(***************************************************************************)
(* State-synchronisation core of the A-Prime chat client (App component):  *)
(* the React state of App, the asynchronous handlers of App suspended at   *)
(* their awaits, and the remote HTTP service they talk to.                 *)
(*                                                                         *)
(* Texts are sequences of one-character strings, so that trim, startsWith  *)
(* and includes are computed on characters as the JavaScript does.         *)
(***************************************************************************)
EXTENDS Integers, Sequences, FiniteSets, TLC

(* ------------------------------ bounds -------------------------------- *)

\* user gestures (send, click) per run; typing is not counted. Two let a second gesture
\* fall while the requests of the first are in flight.
MaxActions == 2
\* a gesture is made only while fewer than MaxInFlight requests are in flight
MaxInFlight == 2
\* network faults per run: requests lost on the way, answers lost or undecodable
MaxFaults == 1

(* ------------------------------- texts -------------------------------- *)

Null == 0

\* the backtick and the newline character
BQ == "BQ"
NL == "NL"

EmptyText == << >>
BlankText == <<" ", NL>>
HiText == <<"h", "i">>
PaddedText == <<" ", "h", "i", NL>>

\* the image-data URI prefix data:image/
ImagePrefix == <<"d", "a", "t", "a", ":", "i", "m", "a", "g", "e", "/">>
\* a fence: three backticks
Fence == <<BQ, BQ, BQ>>
\* three backticks followed by python
FencePython == <<BQ, BQ, BQ, "p", "y", "t", "h", "o", "n">>

PlainResp == <<"o", "k">>
ImageResp == ImagePrefix \o <<"A">>
\* a js fence around x
JsCodeResp == Fence \o <<"j", "s", NL, "x", NL>> \o Fence
\* a python fence around x
PyCodeResp == FencePython \o <<NL, "x", NL>> \o Fence

ErrorText == <<"S", "o", "r", "r", "y">>

NoTitle == ""
DefaultTitle == "New Chat"
NewTitle == "T"

IsSpace(c) == c \in {" ", NL}

RECURSIVE TrimStart(_)
TrimStart(s) ==
    IF s = << >> THEN << >>
    ELSE IF IsSpace(Head(s)) THEN TrimStart(Tail(s))
    ELSE s

RECURSIVE TrimEnd(_)
TrimEnd(s) ==
    IF s = << >> THEN << >>
    ELSE IF IsSpace(s[Len(s)]) THEN TrimEnd(SubSeq(s, 1, Len(s) - 1))
    ELSE s

TrimIdentity(s) == s

\* String.prototype.trim
Trim(s) == TrimEnd(TrimStart(s))

\* String.prototype.startsWith
StartsWith(s, p) == Len(s) >= Len(p) /\ SubSeq(s, 1, Len(p)) = p

RECURSIVE IncludesFrom(_, _, _)
IncludesFrom(s, p, i) ==
    IF i + Len(p) - 1 > Len(s) THEN FALSE
    ELSE IF SubSeq(s, i, i + Len(p) - 1) = p THEN TRUE
    ELSE IncludesFrom(s, p, i + 1)

\* String.prototype.includes
Includes(s, p) == IncludesFrom(s, p, 1)

(* ----------------------------- messages ------------------------------- *)

Msg(role, text, img, code, err) ==
    [role |-> role, text |-> text, isImage |-> img, isCode |-> code, isError |-> err]

UserMessage(text) == Msg("user", text, FALSE, FALSE, FALSE)

\* the copy of App that runs: the first one of the file, with the sidebar toggle
AppCopy == 1

\* the two copies of App differ in how they flag code
IsCodeFlag(variant, text) ==
    IF variant = AppCopy THEN Includes(text, Fence)
    ELSE Includes(text, FencePython) /\ Includes(text, Fence)

IsImageFlag(text) == StartsWith(text, ImagePrefix)

AssistantMessage(variant, text) ==
    Msg("assistant", text, IsImageFlag(text), IsCodeFlag(variant, text), FALSE)

ErrorMessage == Msg("assistant", ErrorText, FALSE, FALSE, TRUE)

Session(id, title) == [id |-> id, title |-> title]

(* ------------------------------- state -------------------------------- *)

VARIABLES
    messages,     \* useState([])    the displayed message list
    input,        \* useState('')    the text of the input box
    isLoading,    \* useState(false)
    sessionId,    \* useState(null)  the active session id, Null when none
    sessions,     \* useState([])    the sidebar's session list
    mounted,      \* whether the mount effects of App have run
    net,          \* the requests in flight, in the order they were issued
    srvSessions,  \* remote service: its sessions, most recent first
    srvHist,      \* remote service: the stored messages of each session id
    nextId,       \* remote service: the next session id it hands out
    gestures,     \* the user gestures so far (send, click), in order
    faults,       \* number of network faults so far
    fetchedFor,   \* the id the sessionId effect last called fetchMessages with
    issued,       \* how many requests of each kind each handler chain has issued
    theme,        \* useState('dark')  the theme of the page
    stored,       \* localStorage: the value under the key chat-theme, NoTheme when there is none
    shown,        \* what ChatMessage renders for a received message (classification only)
    ev            \* the handler step taken last

vars == <<messages, input, isLoading, sessionId, sessions, mounted, net,
          srvSessions, srvHist, nextId, gestures, faults, fetchedFor, issued,
          theme, stored, shown, ev>>

client == <<messages, input, isLoading, sessionId, sessions>>
\* the theme and the rendering, which the chat handlers leave alone
page == <<theme, stored, shown>>

NoTheme == "none"
Dark == "dark"
Light == "light"

\* what ChatMessage returns: an img of src body, a CodeBlock of language and code body, or
\* a paragraph of text body
View(as, language, body) == [as |-> as, language |-> language, body |-> body]

\* nothing rendered yet
NoView == View("none", << >>, << >>)
server == <<srvSessions, srvHist, nextId>>

\* how many sessions the service may hold before the client starts
StoredCounts == {0, 1, 2}

\* the ids the service can hand out: the mount effect and every gesture create at most
\* one session each
Ids == 1..(3 + MaxActions + 1)

\* the texts the user types, and the texts the chat endpoint answers with
Typed == {BlankText, HiText}
Responses == {JsCodeResp}

SessionKinds == {"load", "sessions", "sendSessions", "delSessions"}
CreateKinds == {"newchat", "sendCreate"}
Kinds == SessionKinds \cup CreateKinds \cup {"chat", "hist", "delete"}

\* the handler chains: 0 is the mount effect, k the k-th gesture
Origins == 0..MaxActions

\* One HTTP request together with the handler suspended on it.
\*   kind    which await it is
\*   origin  the gesture whose handler chain issued it (0: the mount effect)
\*   sid     the session id in the URL or body;  cap: the sessionId the handler closed over
\*   text    the user text of a send
\*   ok      whether the service has a success answer for it; rSessions, rMsgs, rId,
\*           rText, rTitle are that answer
\*   lost    whether the request was lost before it reached the service
Req(kind, origin, sid, cap, text) ==
    [kind |-> kind, origin |-> origin, sid |-> sid, cap |-> cap, text |-> text,
     ok |-> FALSE, lost |-> FALSE, rSessions |-> << >>, rMsgs |-> << >>,
     rId |-> Null, rText |-> << >>, rTitle |-> NoTitle]

Remove(seq, i) == SubSeq(seq, 1, i - 1) \o SubSeq(seq, i + 1, Len(seq))

SessionIds(list) == {list[k].id : k \in 1..Len(list)}

actions == Len(gestures)

\* a gesture as logged: its kind, the session clicked, and the sessionId and the length of
\* the session list its handler saw
Gest(kind, sid) == [kind |-> kind, sid |-> sid, cap |-> sessionId, count |-> Len(sessions)]

RECURSIVE Tally(_, _)
Tally(count, new) ==
    IF new = << >> THEN count
    ELSE Tally([count EXCEPT ![Head(new).origin][Head(new).kind] = @ + 1], Tail(new))

\* the requests a step issued are the ones it put at the end of net; resumed is 1 when the
\* step resumed a handler, whose request left net, and 0 otherwise
Issue(resumed) == issued' = Tally(issued, SubSeq(net', Len(net) - resumed + 1, Len(net')))

Ev(op, origin, sid) == [op |-> op, origin |-> origin, sid |-> sid]

(* -------------------------- the remote service ------------------------ *)
(* The service processes a request when it is issued and the answer then   *)
(* travels for an arbitrary time: answers arrive in any order, each with   *)
(* the data of the moment its request was processed.  A write may also be  *)
(* lost before it reaches the service.                                     *)

SrvExists(id) == id \in SessionIds(srvSessions)

SrvWithout(list, id) == SelectSeq(list, LAMBDA x : x.id # id)

SrvIndexOf(id) == (CHOOSE k \in 1..Len(srvSessions) : srvSessions[k].id = id)

\* the history a session has before the client starts: id copies of the letter a
StoredHistory(id) == <<UserMessage([j \in 1..id |-> "a"])>>

SrvAssistant(text) == Msg("assistant", text, StartsWith(text, ImagePrefix), Includes(text, Fence), FALSE)

\* GET /api/sessions
SrvListSessions(r) == [r EXCEPT !.ok = TRUE, !.rSessions = srvSessions]

\* GET /api/chat_history/{id}, read from the stored histories hist
SrvHistory(r, hist) == [r EXCEPT !.ok = TRUE, !.rMsgs = hist[r.sid]]

\* POST /api/new_chat: the answers the service can give
SrvCreateAnswers(r) == {[r EXCEPT !.ok = TRUE, !.rId = nextId]}

\* the service titles a session at its first exchange
SrvNewTitle(id) == IF srvSessions[SrvIndexOf(id)].title = DefaultTitle THEN NewTitle ELSE NoTitle

\* POST /api/chat
SrvChatAnswers(r) ==
    IF SrvExists(r.sid)
      THEN {[r EXCEPT !.ok = TRUE, !.rText = resp, !.rTitle = SrvNewTitle(r.sid)] :
               resp \in Responses}
      ELSE {r}

\* DELETE /api/sessions/{id}
SrvDeleteAnswers(r) == IF SrvExists(r.sid) THEN {[r EXCEPT !.ok = TRUE]} ELSE {r}

\* the answers to a write: those of the service, or none when the request is lost on the way
\* (spent: the faults the step has used already)
SrvAnswers(r, spent) ==
    (IF r.kind \in CreateKinds THEN SrvCreateAnswers(r)
     ELSE IF r.kind = "chat" THEN SrvChatAnswers(r)
     ELSE SrvDeleteAnswers(r))
    \cup (IF faults + spent < MaxFaults THEN {[r EXCEPT !.lost = TRUE]} ELSE {})

\* what processing the write with answer a does to the service
SrvApply(a) ==
    IF ~a.ok THEN UNCHANGED server
    ELSE IF a.kind \in CreateKinds
      THEN /\ srvSessions' = <<Session(a.rId, DefaultTitle)>> \o srvSessions
           /\ nextId' = nextId + 1
           /\ UNCHANGED srvHist
    ELSE IF a.kind = "chat"
      THEN LET old == srvSessions[SrvIndexOf(a.sid)]
               new == IF a.rTitle = NoTitle THEN old ELSE Session(a.sid, a.rTitle)
           IN /\ srvHist' = [srvHist EXCEPT ![a.sid] = @ \o <<UserMessage(a.text), SrvAssistant(a.rText)>>]
              /\ srvSessions' = <<new>> \o SrvWithout(srvSessions, a.sid)
              /\ UNCHANGED nextId
    ELSE /\ srvSessions' = SrvWithout(srvSessions, a.sid)
         /\ srvHist' = [srvHist EXCEPT ![a.sid] = << >>]
         /\ UNCHANGED nextId

(* ------------------------ the handlers of App ------------------------- *)

\* an awaited fetch resolves with the answer, or rejects (network or decode error, at any time)
Succeeds(r) == r.ok

Pending(i, kinds) == i \in 1..Len(net) /\ net[i].kind \in kinds

\* rejecting the await of a request the service answered well is a network fault
FailCost(r, success) == IF ~success /\ r.ok THEN 1 ELSE 0

LostCost(a) == IF a.lost THEN 1 ELSE 0

\* the outcomes the await on net[i] can have
Outcome(i, success) ==
    /\ success => Succeeds(net[i])
    /\ faults + FailCost(net[i], success) <= MaxFaults

EffectNever(newSid) == FALSE

\* useEffect(() => fetchMessages(sessionId), [sessionId, fetchMessages]) runs when sessionId changed
EffectFires(newSid) == newSid # sessionId

\* setSessionId(newSid) followed by the effect: fetchMessages(newSid) sets isLoading and issues
\* the history fetch. netBase and loadingBase are what the handler itself made of net and
\* isLoading; hist is the stored histories the service answers the fetch from.
SetSessionId(newSid, origin, netBase, loadingBase, hist) ==
    /\ sessionId' = newSid
    /\ IF EffectFires(newSid)
         THEN /\ net' = Append(netBase, SrvHistory(Req("hist", origin, newSid, Null, << >>), hist))
              /\ isLoading' = TRUE
              /\ fetchedFor' = newSid
         ELSE /\ net' = netBase
              /\ isLoading' = loadingBase
              /\ UNCHANGED fetchedFor

\* the mount effects: loadInitialData() issues fetchSessions(); fetchMessages(null) clears the list
Mount ==
    /\ ~mounted
    /\ mounted' = TRUE
    /\ messages' = << >>
    /\ net' = Append(net, SrvListSessions(Req("load", 0, Null, Null, << >>)))
    /\ theme' = (IF stored = NoTheme THEN Dark ELSE stored)
    /\ ev' = Ev("mount", 0, Null)
    /\ fetchedFor' = Null
    /\ UNCHANGED <<input, isLoading, sessionId, sessions, server, gestures, faults>>
    /\ Issue(0)
    /\ UNCHANGED <<stored, shown>>

Gesture == mounted /\ actions < MaxActions /\ Len(net) < MaxInFlight

\* ChatInput: onChange={(e) => setInput(e.target.value)}, textarea disabled while isLoading
TypeInput(t) ==
    /\ Gesture
    /\ ~isLoading
    /\ input = EmptyText
    /\ input' = t
    /\ ev' = Ev("type", 0, Null)
    /\ UNCHANGED <<messages, isLoading, sessionId, sessions, mounted, net, server, gestures, faults, fetchedFor, issued>>
    /\ UNCHANGED page

Replaced(list, text) == <<UserMessage(text)>>

\* setMessages(prevMessages => [...prevMessages, userMessage])
Optimistic(list, text) == Append(list, UserMessage(text))

\* sendMessage, up to its first await; the button and the Enter key are disabled while isLoading
SendMessage ==
    /\ Gesture
    /\ ~isLoading
    /\ IF Trim(input) = EmptyText
         THEN /\ gestures' = Append(gestures, Gest("sendEmpty", sessionId))
              /\ ev' = Ev("sendEmpty", actions + 1, sessionId)
              /\ UNCHANGED <<client, net, server, faults>>
         ELSE /\ gestures' = Append(gestures, Gest("send", sessionId))
              /\ messages' = Optimistic(messages, input)
              /\ input' = EmptyText
              /\ isLoading' = TRUE
              /\ \E a \in SrvAnswers(IF sessionId = Null
                                       THEN Req("sendCreate", actions + 1, Null, Null, input)
                                       ELSE Req("chat", actions + 1, sessionId, sessionId, input), 0) :
                    /\ net' = Append(net, a)
                    /\ SrvApply(a)
                    /\ faults' = faults + LostCost(a)
              /\ ev' = Ev("send", actions + 1, sessionId)
              /\ UNCHANGED <<sessionId, sessions>>
    /\ UNCHANGED <<mounted, fetchedFor>>
    /\ Issue(0)
    /\ UNCHANGED page

CapturedSessionId(r) == r.cap

\* currentSessionId = data.session_id
CurrentSessionId(r) == r.rId

\* sendMessage after await fetch(new_chat) resolved: the chat request goes out, then the effect runs
SendCreateOk(i) ==
    /\ Pending(i, {"sendCreate"})
    /\ Outcome(i, TRUE)
    /\ LET r == net[i] IN
       \E a \in SrvAnswers(Req("chat", r.origin, CurrentSessionId(r), Null, r.text), 0) :
          /\ SrvApply(a)
          /\ faults' = faults + LostCost(a)
          /\ \E hist \in {srvHist, srvHist'} :
                SetSessionId(CurrentSessionId(r), r.origin, Append(Remove(net, i), a), isLoading, hist)
          /\ ev' = Ev("sendCreateOk", r.origin, r.rId)
    /\ UNCHANGED <<messages, input, sessions, mounted, gestures>>
    /\ Issue(1)
    /\ UNCHANGED page

\* sendMessage, catch of the session creation
SendCreateFail(i) ==
    /\ Pending(i, {"sendCreate"})
    /\ Outcome(i, FALSE)
    /\ isLoading' = FALSE
    /\ net' = Remove(net, i)
    /\ faults' = faults + FailCost(net[i], FALSE)
    /\ ev' = Ev("sendCreateFail", net[i].origin, Null)
    /\ UNCHANGED <<messages, input, sessionId, sessions, mounted, server, gestures, fetchedFor>>
    /\ Issue(1)
    /\ UNCHANGED page

PatchAll(list, sid, title) == [k \in 1..Len(list) |-> Session(list[k].id, title)]

\* prevSessions.map(session => session.id === currentSessionId ? {...session, title} : session)
PatchTitle(list, sid, title) ==
    [k \in 1..Len(list) |-> IF list[k].id = sid THEN Session(list[k].id, title) ELSE list[k]]

\* sendMessage after await fetch(chat) resolved: patch the title, append the answer, await fetchSessions()
ChatOk(i) ==
    /\ Pending(i, {"chat"})
    /\ Outcome(i, TRUE)
    /\ LET r == net[i] IN
       /\ sessions' = IF r.rTitle # NoTitle THEN PatchTitle(sessions, r.sid, r.rTitle) ELSE sessions
       /\ messages' = Append(messages, AssistantMessage(AppCopy, r.rText))
       /\ net' = Append(Remove(net, i), SrvListSessions(Req("sendSessions", r.origin, r.sid, Null, r.text)))
       /\ ev' = Ev("chatOk", r.origin, r.sid)
    /\ UNCHANGED <<input, isLoading, sessionId, mounted, server, gestures, faults, fetchedFor>>
    /\ Issue(1)
    /\ UNCHANGED page

FinallyKeeps(r) == isLoading

\* finally { setIsLoading(false) } of the handler that awaited r
FinallyLoading(r) == FALSE

\* sendMessage, catch and finally of the chat request
ChatFail(i) ==
    /\ Pending(i, {"chat"})
    /\ Outcome(i, FALSE)
    /\ messages' = Append(messages, ErrorMessage)
    /\ isLoading' = FinallyLoading(net[i])
    /\ net' = Remove(net, i)
    /\ faults' = faults + FailCost(net[i], FALSE)
    /\ ev' = Ev("chatFail", net[i].origin, net[i].sid)
    /\ UNCHANGED <<input, sessionId, sessions, mounted, server, gestures, fetchedFor>>
    /\ Issue(1)
    /\ UNCHANGED page

\* fetchSessions: setSessions(data) on success, nothing on failure
StoredSessions(r, success) == IF success THEN r.rSessions ELSE sessions

ReturnedAnyway(r, success) == r.rSessions

\* fetchSessions: return data on success, [] on failure
ReturnedSessions(r, success) == IF success THEN r.rSessions ELSE << >>

\* sendMessage after await fetchSessions(), then finally
SendSessionsDone(i, success) ==
    /\ Pending(i, {"sendSessions"})
    /\ Outcome(i, success)
    /\ sessions' = StoredSessions(net[i], success)
    /\ isLoading' = FinallyLoading(net[i])
    /\ net' = Remove(net, i)
    /\ faults' = faults + FailCost(net[i], success)
    /\ ev' = Ev(IF success THEN "sendSessionsOk" ELSE "sendSessionsFail", net[i].origin, net[i].sid)
    /\ UNCHANGED <<messages, input, sessionId, mounted, server, gestures, fetchedFor>>
    /\ Issue(1)
    /\ UNCHANGED page

\* fetchMessages after its await: setMessages(data), or setMessages([]) in the catch; finally
HistDone(i, success) ==
    /\ Pending(i, {"hist"})
    /\ Outcome(i, success)
    /\ messages' = IF success THEN net[i].rMsgs ELSE << >>
    /\ isLoading' = FinallyLoading(net[i])
    /\ net' = Remove(net, i)
    /\ faults' = faults + FailCost(net[i], success)
    /\ ev' = Ev(IF success THEN "histOk" ELSE "histFail", net[i].origin, net[i].sid)
    /\ UNCHANGED <<input, sessionId, sessions, mounted, server, gestures, fetchedFor>>
    /\ Issue(1)
    /\ UNCHANGED page

\* startNewChat up to its await: the creation request joins netBase and the service processes it
StartNewChat(origin, netBase, spent) ==
    \E a \in SrvAnswers(Req("newchat", origin, Null, Null, << >>), spent) :
       /\ net' = Append(netBase, a)
       /\ SrvApply(a)
       /\ faults' = faults + spent + LostCost(a)

\* the New Chat button
ClickNewChat ==
    /\ Gesture
    /\ gestures' = Append(gestures, Gest("newChat", Null))
    /\ StartNewChat(actions + 1, net, 0)
    /\ ev' = Ev("newChat", actions + 1, Null)
    /\ UNCHANGED <<client, mounted, fetchedFor>>
    /\ Issue(0)
    /\ UNCHANGED page

\* startNewChat after await fetch(new_chat) resolved: the fetchSessions() call precedes the effect
NewChatOk(i) ==
    /\ Pending(i, {"newchat"})
    /\ Outcome(i, TRUE)
    /\ LET r == net[i] IN
       /\ SetSessionId(r.rId, r.origin,
                       Append(Remove(net, i), SrvListSessions(Req("sessions", r.origin, Null, Null, << >>))),
                       isLoading, srvHist)
       /\ messages' = << >>
       /\ input' = EmptyText
       /\ ev' = Ev("newChatOk", r.origin, r.rId)
    /\ UNCHANGED <<sessions, mounted, server, gestures, faults>>
    /\ Issue(1)
    /\ UNCHANGED page

RetryNewChat(r, i) == Append(Remove(net, i), r)

\* startNewChat, catch: only console.error
CatchNewChat(r, i) == Remove(net, i)

NewChatFail(i) ==
    /\ Pending(i, {"newchat"})
    /\ Outcome(i, FALSE)
    /\ net' = CatchNewChat(net[i], i)
    /\ faults' = faults + FailCost(net[i], FALSE)
    /\ ev' = Ev("newChatFail", net[i].origin, Null)
    /\ UNCHANGED <<client, mounted, server, gestures, fetchedFor>>
    /\ Issue(1)
    /\ UNCHANGED page

\* startNewChat after await fetchSessions()
SessionsDone(i, success) ==
    /\ Pending(i, {"sessions"})
    /\ Outcome(i, success)
    /\ sessions' = StoredSessions(net[i], success)
    /\ net' = Remove(net, i)
    /\ faults' = faults + FailCost(net[i], success)
    /\ ev' = Ev(IF success THEN "sessionsOk" ELSE "sessionsFail", net[i].origin, Null)
    /\ UNCHANGED <<messages, input, isLoading, sessionId, mounted, server, gestures, fetchedFor>>
    /\ Issue(1)
    /\ UNCHANGED page

\* handleSessionClick (copy 1) or setSessionId (copy 2) on a sidebar entry
SwitchSession(sid) ==
    /\ Gesture
    /\ sid \in SessionIds(sessions)
    /\ gestures' = Append(gestures, Gest("switch", sid))
    /\ SetSessionId(sid, actions + 1, net, isLoading, srvHist)
    /\ ev' = Ev("switch", actions + 1, sid)
    /\ UNCHANGED <<messages, input, sessions, mounted, server, faults>>
    /\ Issue(0)
    /\ UNCHANGED page

PickLast(list) == list[Len(list)].id

\* updatedSessions[0].id
PickFirst(list) == list[1].id

\* what loadInitialData and handleDeleteSession do with the list fetchSessions returned
ActivateFirstOrNew(list, origin, netBase, spent) ==
    IF Len(list) > 0
      THEN /\ SetSessionId(PickFirst(list), origin, netBase, isLoading, srvHist)
           /\ faults' = faults + spent
           /\ UNCHANGED server
      ELSE /\ StartNewChat(origin, netBase, spent)
           /\ UNCHANGED <<sessionId, isLoading, fetchedFor>>

\* loadInitialData after await fetchSessions()
LoadDone(i, success) ==
    /\ Pending(i, {"load"})
    /\ Outcome(i, success)
    /\ sessions' = StoredSessions(net[i], success)
    /\ ActivateFirstOrNew(ReturnedSessions(net[i], success), net[i].origin, Remove(net, i),
                          FailCost(net[i], success))
    /\ ev' = Ev(IF success THEN "loadOk" ELSE "loadFail", net[i].origin, Null)
    /\ UNCHANGED <<messages, input, mounted, gestures>>
    /\ Issue(1)
    /\ UNCHANGED page

\* HistorySidebar handleDelete -> handleDeleteSession up to its await; the closure holds sessionId
ClickDelete(sid) ==
    /\ Gesture
    /\ sid \in SessionIds(sessions)
    /\ gestures' = Append(gestures, Gest("delete", sid))
    /\ \E a \in SrvAnswers(Req("delete", actions + 1, sid, sessionId, << >>), 0) :
          /\ net' = Append(net, a)
          /\ SrvApply(a)
          /\ faults' = faults + LostCost(a)
    /\ ev' = Ev("delete", actions + 1, sid)
    /\ UNCHANGED <<client, mounted, fetchedFor>>
    /\ Issue(0)
    /\ UNCHANGED page

\* handleDeleteSession after await fetch(DELETE) with response.ok: await fetchSessions()
DeleteOk(i) ==
    /\ Pending(i, {"delete"})
    /\ Outcome(i, TRUE)
    /\ net' = Append(Remove(net, i),
                     SrvListSessions(Req("delSessions", net[i].origin, net[i].sid, net[i].cap, << >>)))
    /\ ev' = Ev("deleteOk", net[i].origin, net[i].sid)
    /\ UNCHANGED <<client, mounted, server, gestures, faults, fetchedFor>>
    /\ Issue(1)
    /\ UNCHANGED page

DeleteFailRefetches(r, i) ==
    Append(Remove(net, i), SrvListSessions(Req("delSessions", r.origin, r.sid, r.cap, << >>)))

\* handleDeleteSession when response.ok is false, or in its catch: only console.error
DeleteFailNet(r, i) == Remove(net, i)

DeleteFail(i) ==
    /\ Pending(i, {"delete"})
    /\ Outcome(i, FALSE)
    /\ net' = DeleteFailNet(net[i], i)
    /\ faults' = faults + FailCost(net[i], FALSE)
    /\ ev' = Ev("deleteFail", net[i].origin, net[i].sid)
    /\ UNCHANGED <<client, mounted, server, gestures, fetchedFor>>
    /\ Issue(1)
    /\ UNCHANGED page

WasActiveNever(r) == FALSE

\* if (sessionId === sid), with the sessionId of the closure
WasActive(r) == r.cap = r.sid

\* handleDeleteSession after await fetchSessions()
DelSessionsDone(i, success) ==
    /\ Pending(i, {"delSessions"})
    /\ Outcome(i, success)
    /\ sessions' = StoredSessions(net[i], success)
    /\ IF WasActive(net[i])
         THEN ActivateFirstOrNew(ReturnedSessions(net[i], success), net[i].origin, Remove(net, i),
                                 FailCost(net[i], success))
         ELSE /\ net' = Remove(net, i)
              /\ faults' = faults + FailCost(net[i], success)
              /\ UNCHANGED <<sessionId, isLoading, fetchedFor, server>>
    /\ ev' = Ev(IF success THEN "delSessionsOk" ELSE "delSessionsFail", net[i].origin, net[i].sid)
    /\ UNCHANGED <<messages, input, mounted, gestures>>
    /\ Issue(1)
    /\ UNCHANGED page

(* --------------------------- specification ---------------------------- *)

StoredList(n) == [k \in 1..n |-> Session(n + 1 - k, IF n + 1 - k = 1 THEN NewTitle ELSE DefaultTitle)]

Init ==
    /\ messages = << >>
    /\ input = EmptyText
    /\ isLoading = FALSE
    /\ sessionId = Null
    /\ sessions = << >>
    /\ mounted = FALSE
    /\ net = << >>
    /\ \E n \in StoredCounts :
         /\ srvSessions = StoredList(n)
         /\ srvHist = [id \in Ids |-> IF id <= n THEN StoredHistory(id) ELSE << >>]
         /\ nextId = n + 1
    /\ gestures = << >>
    /\ faults = 0
    /\ fetchedFor = Null
    /\ issued = [o \in Origins |-> [k \in Kinds |-> 0]]
    /\ theme = Dark
    /\ stored = NoTheme
    /\ shown = NoView
    /\ ev = Ev("init", 0, Null)

Next ==
    \/ Mount
    \/ \E t \in Typed : TypeInput(t)
    \/ SendMessage
    \/ ClickNewChat
    \/ \E sid \in Ids : SwitchSession(sid)
    \/ \E sid \in Ids : ClickDelete(sid)
    \/ \E i \in 1..Len(net) : SendCreateOk(i)
    \/ \E i \in 1..Len(net) : SendCreateFail(i)
    \/ \E i \in 1..Len(net) : ChatOk(i)
    \/ \E i \in 1..Len(net) : ChatFail(i)
    \/ \E i \in 1..Len(net), success \in BOOLEAN : SendSessionsDone(i, success)
    \/ \E i \in 1..Len(net), success \in BOOLEAN : HistDone(i, success)
    \/ \E i \in 1..Len(net) : NewChatOk(i)
    \/ \E i \in 1..Len(net) : NewChatFail(i)
    \/ \E i \in 1..Len(net), success \in BOOLEAN : SessionsDone(i, success)
    \/ \E i \in 1..Len(net), success \in BOOLEAN : LoadDone(i, success)
    \/ \E i \in 1..Len(net) : DeleteOk(i)
    \/ \E i \in 1..Len(net) : DeleteFail(i)
    \/ \E i \in 1..Len(net), success \in BOOLEAN : DelSessionsDone(i, success)

Spec == Init /\ [][Next]_vars

\* a pending await settles: the fetch resolves or rejects
Settle ==
    \/ \E i \in 1..Len(net) : SendCreateOk(i) \/ SendCreateFail(i) \/ ChatOk(i) \/ ChatFail(i)
    \/ \E i \in 1..Len(net) : NewChatOk(i) \/ NewChatFail(i) \/ DeleteOk(i) \/ DeleteFail(i)
    \/ \E i \in 1..Len(net), success \in BOOLEAN :
          \/ SendSessionsDone(i, success) \/ HistDone(i, success) \/ SessionsDone(i, success)
          \/ LoadDone(i, success) \/ DelSessionsDone(i, success)

\* every fetch settles in the end
FairSpec == Spec /\ WF_vars(Settle)

(* ------------------------------ the theme ------------------------------ *)
(* The theme toggle of the sidebar, with a stored preference of an earlier *)
(* visit: the chat handlers run as above, any number of toggles between.   *)

SameTheme(current) == current

\* const newTheme = theme === 'dark' ? 'light' : 'dark'
NewTheme(current) == IF current = Dark THEN Light ELSE Dark

\* toggleTheme: setTheme(newTheme); localStorage.setItem('chat-theme', newTheme)
ToggleTheme ==
    /\ mounted
    /\ theme' = NewTheme(theme)
    /\ stored' = theme'
    /\ ev' = Ev("toggle", 0, Null)
    /\ UNCHANGED <<client, mounted, net, server, gestures, faults, fetchedFor, issued, shown>>

\* what localStorage holds: nothing, or what a toggle of an earlier visit wrote
InitTheme ==
    /\ messages = << >>
    /\ input = EmptyText
    /\ isLoading = FALSE
    /\ sessionId = Null
    /\ sessions = << >>
    /\ mounted = FALSE
    /\ net = << >>
    /\ \E n \in StoredCounts :
         /\ srvSessions = StoredList(n)
         /\ srvHist = [id \in Ids |-> IF id <= n THEN StoredHistory(id) ELSE << >>]
         /\ nextId = n + 1
    /\ gestures = << >>
    /\ faults = 0
    /\ fetchedFor = Null
    /\ issued = [o \in Origins |-> [k \in Kinds |-> 0]]
    /\ theme = Dark
    /\ stored \in {NoTheme, Dark, Light}
    /\ shown = NoView
    /\ ev = Ev("init", 0, Null)

NextTheme == Next \/ ToggleTheme

SpecTheme == InitTheme /\ [][NextTheme]_vars

(* ------------------------ ChatMessage, CodeBlock ---------------------- *)

TextLang == <<"t", "e", "x", "t">>

\* the first position from i on where p occurs in s, 0 when there is none
RECURSIVE IndexFrom(_, _, _)
IndexFrom(s, p, i) ==
    IF i + Len(p) - 1 > Len(s) THEN 0
    ELSE IF SubSeq(s, i, i + Len(p) - 1) = p THEN i
    ELSE IndexFrom(s, p, i + 1)

NoMatch == [found |-> FALSE, lang |-> << >>, code |-> << >>]

\* the match of the regular expression fence (.*?) newline ([\s\S]*?) newline fence that starts at
\* position p: the dot takes no newline, so group 1 ends at the first newline, and the lazy
\* group 2 ends at the first newline followed by a fence
MatchAt(s, p) ==
    IF p + 2 > Len(s) \/ SubSeq(s, p, p + 2) # Fence THEN NoMatch
    ELSE LET n == IndexFrom(s, <<NL>>, p + 3) IN
         IF n = 0 THEN NoMatch
         ELSE LET q == IndexFrom(s, <<NL>> \o Fence, n + 1) IN
              IF q = 0 THEN NoMatch
              ELSE [found |-> TRUE, lang |-> SubSeq(s, p + 3, n - 1), code |-> SubSeq(s, n + 1, q - 1)]

RECURSIVE MatchFrom(_, _)
MatchFrom(s, p) ==
    IF p > Len(s) THEN NoMatch
    ELSE IF MatchAt(s, p).found THEN MatchAt(s, p)
    ELSE MatchFrom(s, p + 1)

\* message.text.match(...): the leftmost match
CodeMatch(s) == MatchFrom(s, 1)

LangAsIs(language) == language

\* CodeBlock: const langToShow = language || 'text'
LangToShow(language) == IF language = << >> THEN TextLang ELSE language

\* ChatMessage
Render(message) ==
    IF message.isImage THEN View("image", << >>, message.text)
    ELSE IF message.isCode
      THEN LET codeMatch == CodeMatch(message.text)
               language == IF codeMatch.found THEN codeMatch.lang ELSE TextLang
               code == IF codeMatch.found THEN codeMatch.code ELSE << >>
           IN View("code", LangToShow(language), code)
    ELSE View("text", << >>, message.text)

(* ------------------- classification of response texts ----------------- *)
(* Both copies of App, appending the assistant message for an arbitrary    *)
(* response text to an empty list.                                         *)

AppCopies == {1, 2}

Fragments == {<< >>, <<"x">>, <<NL>>, <<BQ, BQ>>, Fence, <<"j", "s">>, <<"p", "y", "t", "h", "o", "n">>,
              ImagePrefix}

\* the response texts: up to three fragments in a row
ProbeTexts == {a \o b \o c : a \in Fragments, b \in Fragments, c \in Fragments}

\* response texts with a fence: something before it, a language tag, a newline or none, a
\* body, and a closing
FencedTexts ==
    {pre \o Fence \o lang \o sep \o body \o close :
        pre \in {<< >>, <<"x">>, ImagePrefix},
        lang \in {<< >>, <<"j", "s">>, <<"p", "y", "t", "h", "o", "n">>},
        sep \in {<<NL>>, << >>},
        body \in {<< >>, <<"x">>, <<"x", NL, "y">>},
        close \in {<<NL>> \o Fence, Fence, << >>, <<NL>> \o Fence \o <<NL>> \o Fence}}

\* setMessages(prevMessages => [...prevMessages, {role: 'assistant', text, isImage, isCode}])
Receive(variant, text) ==
    /\ messages = << >>
    /\ messages' = Append(messages, AssistantMessage(variant, text))
    /\ shown' = Render(AssistantMessage(variant, text))
    /\ ev' = Ev("receive", variant, Null)
    /\ UNCHANGED <<input, isLoading, sessionId, sessions, mounted, net, server, gestures, faults,
                   fetchedFor, issued, theme, stored>>

InitClassify ==
    /\ messages = << >>
    /\ input = EmptyText
    /\ isLoading = FALSE
    /\ sessionId = Null
    /\ sessions = << >>
    /\ mounted = FALSE
    /\ net = << >>
    /\ srvSessions = << >>
    /\ srvHist = [id \in Ids |-> << >>]
    /\ nextId = 1
    /\ gestures = << >>
    /\ faults = 0
    /\ fetchedFor = Null
    /\ issued = [o \in Origins |-> [k \in Kinds |-> 0]]
    /\ theme = Dark
    /\ stored = NoTheme
    /\ shown = NoView
    /\ ev = Ev("init", 0, Null)

NextClassify == \E variant \in AppCopies, text \in ProbeTexts \cup FencedTexts : Receive(variant, text)

SpecClassify == InitClassify /\ [][NextClassify]_vars

(* ------------------------------- claims ------------------------------- *)

\* the gesture whose handler chain took the step
StepGesture == gestures[ev'.origin]

\* C1: while session B, reached by a switch from session A, is active, the result of the
\* history fetch for A is discarded: it leaves the displayed message list as it is.
C1_StaleHistoryDiscarded ==
    [][\A k \in 1..Len(gestures) :
          (/\ gestures[k].kind = "switch"
           /\ gestures[k].cap # Null
           /\ gestures[k].cap # gestures[k].sid
           /\ sessionId = gestures[k].sid
           /\ ev'.op = "histOk"
           /\ ev'.sid = gestures[k].cap)
          => messages' = messages]_vars

\* C2: when the chat request of a send succeeds, the message list ends with the user message
\* carrying the sent text followed by the assistant message, whether or not the send had to
\* create the session first (runs without a network fault).
C2_SendEndsWithUserThenAssistant ==
    [][ev'.op = "chatOk" =>
          \A i \in 1..Len(net) :
             (net[i].kind = "chat" /\ net[i].origin = ev'.origin /\ faults' = 0) =>
                LET n == Len(messages') IN
                /\ n >= 2
                /\ messages'[n].role = "assistant"
                /\ messages'[n - 1] = UserMessage(net[i].text)]_vars

\* C3: when a remote call of a send fails (the session creation or the chat request), the
\* message list ends with an assistant message flagged isError, the session list is left as
\* it was and no request, so no session-list refresh, is issued.
C3_FailedSendShowsError ==
    [][ev'.op \in {"chatFail", "sendCreateFail"} =>
          /\ Len(messages') > 0
          /\ messages'[Len(messages')].role = "assistant"
          /\ messages'[Len(messages')].isError
          /\ sessions' = sessions
          /\ issued' = issued]_vars

AllSpace(t) == \A i \in 1..Len(t) : t[i] \in {" ", NL}

\* C4: a send while the input consists of white space only (or is empty) changes none of
\* messages, input, isLoading, sessionId, sessions and issues no request.
C4_EmptySendChangesNothing ==
    [][(ev'.op \in {"send", "sendEmpty"} /\ AllSpace(input)) =>
          /\ UNCHANGED <<messages, input, isLoading, sessionId, sessions>>
          /\ net' = net
          /\ issued' = issued]_vars

C4_Witness == ev.op = "sendEmpty" /\ input = BlankText /\ net = << >>

\* C5: after the only session of the list, the active one, was deleted (the only gesture of
\* the run, no network fault), once no request is in flight any more the handler chain has
\* issued exactly one creation request, the created session is the active one and the
\* message list is empty.
C5_DeleteOnlySession ==
    \A k \in 1..Len(gestures) :
       (/\ Len(gestures) = 1
        /\ gestures[k].kind = "delete"
        /\ gestures[k].count = 1
        /\ gestures[k].cap = gestures[k].sid
        /\ issued[k]["delSessions"] = 1
        /\ faults = 0
        /\ net = << >>)
       => /\ issued[k]["newchat"] = 1
          /\ Len(srvSessions) = 1
          /\ sessionId = srvSessions[1].id
          /\ sessionId # gestures[k].sid
          /\ messages = << >>

\* C6: when the list refresh after a successful remote delete arrives: if the deleted id was
\* the active session of the gesture, the first session of the refreshed list becomes the
\* active one, or one creation request is issued if that list is empty; if it was not, the
\* active id and the message list stay as they are and nothing is issued. The successful
\* delete itself changes neither.
C6_DeleteActivatesFirstOrNew ==
    [][/\ ev'.op = "deleteOk" => (sessionId' = sessionId /\ messages' = messages)
       /\ ev'.op = "delSessionsOk" =>
             LET o == ev'.origin IN
             IF StepGesture.cap = StepGesture.sid
               THEN IF Len(sessions') > 0
                      THEN /\ sessionId' = sessions'[1].id
                           /\ issued'[o]["newchat"] = issued[o]["newchat"]
                      ELSE /\ issued'[o]["newchat"] = issued[o]["newchat"] + 1
                           /\ sessionId' = sessionId
               ELSE /\ sessionId' = sessionId
                    /\ messages' = messages
                    /\ issued' = issued]_vars

C6_Witness ==
    /\ ev.op = "delSessionsOk"
    /\ gestures[ev.origin].cap = gestures[ev.origin].sid
    /\ Len(sessions) > 0
    /\ sessionId = sessions[1].id
    /\ sessionId # gestures[ev.origin].sid

\* C7: when the remote delete fails, the session list, the active id and the message list
\* stay as they are, no request is issued and none of that gesture is left in flight.
C7_FailedDeleteChangesNothing ==
    [][ev'.op = "deleteFail" =>
          /\ sessions' = sessions
          /\ sessionId' = sessionId
          /\ messages' = messages
          /\ issued' = issued
          /\ \A j \in 1..Len(net') : net'[j].origin # ev'.origin]_vars

C7_Witness == ev.op = "deleteFail" /\ gestures[ev.origin].kind = "delete" /\ sessions # << >>

\* C8: the mount effect fetches the session list once; when the fetch arrives with a
\* non-empty list its first session is the active one from then on and the last history
\* fetch issued is the one for that id, issued by this very step unless the id was active
\* already, with no creation request; when it arrives with an empty list, or fails, exactly
\* one creation request is issued. The mount effect never issues more than one of either.
C8_LoadInitialOnce ==
    [][/\ issued'[0]["load"] <= 1
       /\ issued'[0]["newchat"] <= 1
       /\ ev'.op \in {"loadOk", "loadFail"} =>
             /\ issued'[0]["load"] = 1
             /\ IF ev'.op = "loadOk" /\ Len(sessions') > 0
                  THEN /\ sessionId' = sessions'[1].id
                       /\ fetchedFor' = sessions'[1].id
                       /\ sessionId # sessions'[1].id =>
                             /\ issued'[0]["hist"] = issued[0]["hist"] + 1
                             /\ \E j \in 1..Len(net') :
                                   /\ net'[j].kind = "hist"
                                   /\ net'[j].sid = sessions'[1].id
                                   /\ net'[j].origin = 0
                       /\ issued'[0]["newchat"] = 0
                  ELSE /\ issued[0]["newchat"] = 0
                       /\ issued'[0]["newchat"] = 1
                       /\ \E j \in 1..Len(net') : net'[j].kind = "newchat" /\ net'[j].origin = 0]_vars

C8_Witness ==
    /\ ev.op = "loadOk"
    /\ Len(sessions) > 1
    /\ sessionId = sessions[1].id
    /\ \E j \in 1..Len(net) : net[j].kind = "hist" /\ net[j].sid = sessionId

\* C9: whenever the active session id is set, the last history fetch the effect issued is
\* the one for exactly that id.
C9_ActiveIdFetched == sessionId # Null => fetchedFor = sessionId

C9_Witness == ev.op = "sendCreateOk" /\ sessionId # Null /\ fetchedFor = sessionId

HasImagePrefix(t) == Len(t) >= Len(ImagePrefix) /\ \A i \in 1..Len(ImagePrefix) : t[i] = ImagePrefix[i]

HasFence(t) == \E i \in 1..(Len(t) - 2) : t[i] = BQ /\ t[i + 1] = BQ /\ t[i + 2] = BQ

\* C10: an assistant message built from a response text is flagged as an image exactly when
\* the text starts with the image-data prefix, and as code exactly when the text contains
\* three backticks in a row.
C10_Classification ==
    \A k \in 1..Len(messages) :
       (messages[k].role = "assistant" /\ ~messages[k].isError) =>
          /\ messages[k].isImage <=> HasImagePrefix(messages[k].text)
          /\ messages[k].isCode <=> HasFence(messages[k].text)

FenceAt(t, i) == i >= 1 /\ i + 2 <= Len(t) /\ t[i] = BQ /\ t[i + 1] = BQ /\ t[i + 2] = BQ

\* the opening fence, the first newline after it and the first later newline that a fence
\* follows; 0 when there is none
OpeningOf(t) ==
    IF \E i \in 1..Len(t) : FenceAt(t, i)
      THEN CHOOSE i \in 1..Len(t) : FenceAt(t, i) /\ \A j \in 1..(i - 1) : ~FenceAt(t, j)
      ELSE 0

TagEndOf(t) ==
    LET from == OpeningOf(t) + 3
        ends == {n \in from..Len(t) : t[n] = NL}
    IN IF OpeningOf(t) # 0 /\ ends # {} THEN CHOOSE n \in ends : \A m \in ends : n <= m ELSE 0

ClosingOf(t) ==
    LET from == TagEndOf(t) + 1
        ends == {q \in from..Len(t) : t[q] = NL /\ FenceAt(t, q + 1)}
    IN IF TagEndOf(t) # 0 /\ ends # {} THEN CHOOSE q \in ends : \A m \in ends : q <= m ELSE 0

TagOf(t) == SubSeq(t, OpeningOf(t) + 3, TagEndOf(t) - 1)

BodyOf(t) == SubSeq(t, TagEndOf(t) + 1, ClosingOf(t) - 1)

FailOps == {"loadFail", "sessionsFail", "sendSessionsFail", "delSessionsFail", "histFail",
            "newChatFail", "sendCreateFail", "chatFail", "deleteFail"}

\* the app has mounted, no request is in flight and the input is enabled
Idle == mounted /\ net = << >> /\ ~isLoading

\* C12: after the failure of any remote call the requests in flight settle and isLoading
\* is false, and from then on it stays false as long as the user makes no gesture.
C12_InteractiveAfterFailure ==
    /\ (ev.op \in FailOps) ~> Idle
    /\ [][(Idle /\ gestures' = gestures) => Idle']_vars

C12_Witness == ev.op = "chatFail" /\ Idle /\ messages # << >> /\ messages[Len(messages)].isError

\* C13: a send with no active session issues the creation request and no chat request; when
\* the creation has succeeded the id the service returned becomes the active id and the one
\* chat request of the send is issued then, with exactly that id and the sent text; when the
\* creation has failed no chat request is issued and isLoading is false.
C13_CreateBeforeChat ==
    [][LET o == ev'.origin IN
       /\ (ev'.op = "send" /\ sessionId = Null) =>
             /\ issued'[o]["sendCreate"] = 1
             /\ issued'[o]["chat"] = 0
             /\ \E j \in 1..Len(net') : net'[j].kind = "sendCreate" /\ net'[j].origin = o
       /\ ev'.op \in {"sendCreateOk", "sendCreateFail"} =>
             \A i \in 1..Len(net) :
                (net[i].kind = "sendCreate" /\ net[i].origin = o) =>
                   IF ev'.op = "sendCreateOk"
                     THEN /\ net[i].ok
                          /\ sessionId' = net[i].rId
                          /\ issued[o]["chat"] = 0
                          /\ issued'[o]["chat"] = 1
                          /\ \E j \in 1..Len(net') :
                                /\ net'[j].kind = "chat"
                                /\ net'[j].origin = o
                                /\ net'[j].sid = net[i].rId
                                /\ net'[j].text = net[i].text
                     ELSE /\ issued'[o]["chat"] = 0
                          /\ \A j \in 1..Len(net') : ~(net'[j].kind = "chat" /\ net'[j].origin = o)
                          /\ isLoading' = FALSE]_vars

C13_Witness ==
    /\ ev.op = "sendCreateOk"
    /\ \E j \in 1..Len(net) : net[j].kind = "chat" /\ net[j].sid = sessionId /\ net[j].text = HiText

\* C14: the step in which a send with a non-blank input is invoked appends the user message
\* carrying the input to the message list, leaving the messages before it as they were and
\* in order, clears the input and sets isLoading, and the one request that step issues is
\* still in flight after it.
C14_OptimisticAppend ==
    [][(ev'.op = "send") =>
          LET o == ev'.origin
              n == Len(messages) IN
          /\ Len(messages') = n + 1
          /\ \A k \in 1..n : messages'[k] = messages[k]
          /\ messages'[n + 1].role = "user"
          /\ messages'[n + 1].text = input
          /\ input' = EmptyText
          /\ isLoading' = TRUE
          /\ Len(net') = Len(net) + 1
          /\ net'[Len(net')].origin = o
          /\ net'[Len(net')].kind \in {"sendCreate", "chat"}
          /\ \A k \in Kinds : issued'[o][k] = (IF k = net'[Len(net')].kind THEN 1 ELSE 0)]_vars

C14_Witness ==
    /\ ev.op = "send"
    /\ Len(messages) >= 2
    /\ messages[Len(messages)] = UserMessage(HiText)
    /\ messages[1] # UserMessage(HiText)
    /\ isLoading
    /\ input = EmptyText

\* C15: when a chat request succeeds with a new title, the session list keeps its length
\* and order, the entry whose id is the id the chat request carried gets that title and
\* every other entry stays as it was; without a new title the session list stays as it was.
C15_TitlePatch ==
    [][ev'.op = "chatOk" =>
          \A i \in 1..Len(net) :
             (net[i].kind = "chat" /\ net[i].origin = ev'.origin) =>
                IF net[i].rTitle # NoTitle
                  THEN /\ Len(sessions') = Len(sessions)
                       /\ \A k \in 1..Len(sessions) :
                             /\ sessions'[k].id = sessions[k].id
                             /\ sessions[k].id = net[i].sid => sessions'[k].title = net[i].rTitle
                             /\ sessions[k].id # net[i].sid => sessions'[k] = sessions[k]
                  ELSE sessions' = sessions]_vars

C15_Witness ==
    /\ ev.op = "chatOk"
    /\ Len(sessions) = 2
    /\ sessions[1] = Session(ev.sid, NewTitle)
    /\ sessions[2].id # ev.sid
    /\ sessions[2].title = NewTitle
    /\ srvSessions[1] = sessions[1]

\* C16: after a successful New Chat clicked while a session is active, once every outstanding
\* request has resolved, the session the service created is the active one and its message
\* list is empty (runs with the one gesture and without a network fault).
C16_NewChatEndsEmpty ==
    \A k \in 1..Len(gestures) :
       (/\ Len(gestures) = 1
        /\ gestures[k].kind = "newChat"
        /\ gestures[k].cap # Null
        /\ issued[k]["sessions"] = 1
        /\ faults = 0
        /\ net = << >>)
       => /\ sessionId \in SessionIds(srvSessions)
          /\ sessionId # gestures[k].cap
          /\ input = EmptyText
          /\ messages = << >>

\* the requests one handler chain has sent to GET /api/sessions and to POST /api/new_chat
SessionFetches(o) ==
    issued[o]["load"] + issued[o]["sessions"] + issued[o]["sendSessions"] + issued[o]["delSessions"]

Creations(o) == issued[o]["newchat"] + issued[o]["sendCreate"]

\* C17 as stated: within one user action or the startup load every endpoint is requested
\* at most once.
C17_EndpointOnce ==
    \A o \in Origins :
       /\ SessionFetches(o) <= 1
       /\ Creations(o) <= 1
       /\ issued[o]["chat"] <= 1
       /\ issued[o]["hist"] <= 1
       /\ issued[o]["delete"] <= 1

\* C17: within one user action or the startup load every call site issues its request at
\* most once and the creation endpoint is requested at most once; the session list is
\* requested a second time only by the startNewChat of that chain; the step that handles a
\* failed request issues nothing, except the creation request that follows a failed list
\* fetch of the startup load or of a delete.
C17_NoRetry ==
    /\ [](\A o \in Origins :
             /\ \A k \in Kinds : issued[o][k] <= 1
             /\ Creations(o) <= 1
             /\ SessionFetches(o) <= 1 + issued[o]["newchat"])
    /\ [][ev'.op \in FailOps =>
            \A o \in Origins, k \in Kinds :
               issued'[o][k] # issued[o][k] =>
                  /\ k = "newchat"
                  /\ o = ev'.origin
                  /\ ev'.op \in {"loadFail", "delSessionsFail"}]_vars

C17_Witness ==
    /\ ev.op = "newChatFail"
    /\ issued[ev.origin]["load"] = 1
    /\ issued[ev.origin]["newchat"] = 1
    /\ faults = 1
    /\ net = << >>

\* the requests a step adds for one handler chain
IssuedBy(o, k) == issued'[o][k] - issued[o][k]

\* C18: a failed session-list fetch leaves the stored session list as it is and hands its
\* caller the empty list, so that the startup load and the delete of the active session go
\* on to create a session and the other callers go on without issuing anything or showing
\* an error; a failed history fetch empties the message list; the history fetch of the
\* mount, which has no session id, empties the message list and sends no history request.
C18_FetchDefaults ==
    [][/\ ev'.op \in {"loadFail", "sessionsFail", "sendSessionsFail", "delSessionsFail"} =>
            /\ sessions' = sessions
            /\ messages' = messages
            /\ sessionId' = sessionId
            /\ \A o \in Origins, k \in Kinds :
                  IssuedBy(o, k) =
                     IF /\ o = ev'.origin
                        /\ k = "newchat"
                        /\ \/ ev'.op = "loadFail"
                           \/ ev'.op = "delSessionsFail" /\ StepGesture.cap = StepGesture.sid
                       THEN 1 ELSE 0
       /\ ev'.op = "histFail" => messages' = << >> /\ sessions' = sessions
       /\ ev'.op = "mount" =>
            /\ sessionId = Null
            /\ messages' = << >>
            /\ \A o \in Origins : IssuedBy(o, "hist") = 0]_vars

C18_Witness ==
    /\ ev.op = "loadFail"
    /\ Len(srvSessions) = 3
    /\ sessions = << >>
    /\ sessionId = Null
    /\ issued[0]["newchat"] = 1
    /\ \E i \in 1..Len(net) : net[i].kind = "newchat"

\* C19: a chat request or a history fetch issued with isLoading true keeps isLoading true
\* for as long as it is unresolved: no step that leaves it in flight clears the flag.
C19_LoadingUntilResolved ==
    [][\A i \in 1..Len(net) :
          (/\ net[i].kind \in {"chat", "hist"}
           /\ isLoading
           /\ \E j \in 1..Len(net') : net'[j] = net[i])
          => isLoading']_vars

\* C20: a toggle flips the theme between dark and light, stores the new value so that the
\* stored value and the theme agree, and leaves messages, sessions, the active session id,
\* the input and isLoading as they are; the mount sets the theme to the stored value, or to
\* dark when nothing is stored, and writes nothing.
C20_Theme ==
    [][/\ ev'.op = "toggle" =>
            /\ theme \in {Dark, Light}
            /\ theme' \in {Dark, Light}
            /\ theme' # theme
            /\ stored' = theme'
            /\ UNCHANGED <<messages, sessions, sessionId, input, isLoading>>
       /\ ev'.op = "mount" =>
            /\ theme' = (IF stored = NoTheme THEN Dark ELSE stored)
            /\ stored' = stored]_vars

C20_Witness ==
    /\ ev.op = "toggle"
    /\ theme = Dark
    /\ stored = Dark
    /\ isLoading
    /\ Len(messages) > 1
    /\ \E i \in 1..Len(net) : net[i].kind = "chat"

\* C21: the assistant or error message of a send addressed to session A is appended only
\* while A is the active session: when the user has switched to another session since the
\* send, the step that handles the chat response leaves the displayed message list as it is.
C21_ResponseOnlyToItsSession ==
    [][(/\ ev'.op \in {"chatOk", "chatFail"}
        /\ sessionId # ev'.sid
        /\ \E k \in 1..Len(gestures) :
              /\ k > ev'.origin
              /\ gestures[k].kind = "switch"
              /\ gestures[k].sid = sessionId)
       => messages' = messages]_vars

\* C22: once a delete whose remote delete succeeded has run to its end and nothing is in
\* flight, the deleted id is not the active session id, whatever the user clicked meanwhile
\* (runs without a network fault).
C22_DeletedNeverActive ==
    \A k \in 1..Len(gestures) :
       (/\ gestures[k].kind = "delete"
        /\ issued[k]["delSessions"] = 1
        /\ faults = 0
        /\ net = << >>)
       => sessionId # gestures[k].sid

\* C23: in every reachable state isLoading is true while a chat request or a history fetch
\* is in flight.
C23_LoadingWhileInFlight ==
    (\E i \in 1..Len(net) : net[i].kind \in {"chat", "hist"}) => isLoading

\* C24: at most one chat request is in flight at any time.
C24_OneChatInFlight ==
    Cardinality({i \in 1..Len(net) : net[i].kind = "chat"}) <= 1

\* C25: after two gestures among New Chat, delete and send, each made with a session active,
\* once every request has resolved the stored session list is the answer to the most
\* recently issued list fetch. In a run without a network fault every handler fetches the
\* list after its last write to the service, so that answer is the list the service holds.
C25_NewestListWins ==
    (/\ mounted
     /\ net = << >>
     /\ faults = 0
     /\ Len(gestures) = 2
     /\ \A k \in 1..Len(gestures) :
           gestures[k].cap # Null /\ gestures[k].kind \in {"newChat", "delete", "send"})
    => sessions = srvSessions

====
